---- MODULE Spec2Model ----
(***************************************************************************)
(* ffstrip: selection of the tracks of a media file to strip or keep.      *)
(*                                                                         *)
(* Python strings are modelled as sequences of one-character strings, so   *)
(* that isdigit, int, split, lower and the substring test `in` are         *)
(* computed character by character.  A Python dict is a function whose     *)
(* DOMAIN is the set of keys that are present.                             *)
(***************************************************************************)
EXTENDS Integers, Sequences, FiniteSets, TLC

VARIABLES
    metadata,      \* main: the "streams" list returned by get_info
    strip,         \* main: the --strip tokens ([] when not given)
    keep,          \* main: the --keep tokens ([] when not given)
    fout,          \* main: the --output path, or None
    pc,            \* main: position in the body of main
    digit_tracks,  \* main: local list
    named_tracks,  \* main: local list
    pending,       \* main: the elements the for loop over the token set has yet to visit
    stdout,        \* the "Unrecognized pattern" lines printed so far
    calls,         \* the invocations of write_file so far
    exc,           \* the exception that ended main, "" when none
    pattern,       \* get_track_number_by_pattern: argument
    codec_type,    \* get_track_number_by_pattern: argument
    result         \* get_track_number_by_pattern: outcome

vars == <<metadata, strip, keep, fout, pc, digit_tracks, named_tracks, pending,
          stdout, calls, exc, pattern, codec_type, result>>

mainvars == <<strip, keep, fout, pc, digit_tracks, named_tracks, pending, stdout, calls, exc>>

matchvars == <<pattern, codec_type, result>>

-----------------------------------------------------------------------------
(* Bounds *)

\* most tracks in a file
MaxTracks == 2

\* most tokens on a command line (--strip and --keep together)
MaxTokens == 2

-----------------------------------------------------------------------------
(* Python strings *)

Digits == {"0", "1", "2", "3", "4", "5", "6", "7", "8", "9"}

DigitVal(c) ==
    CASE c = "0" -> 0 [] c = "1" -> 1 [] c = "2" -> 2 [] c = "3" -> 3 [] c = "4" -> 4
      [] c = "5" -> 5 [] c = "6" -> 6 [] c = "7" -> 7 [] c = "8" -> 8 [] c = "9" -> 9

\* str.isdigit(): every character is a digit and there is at least one
isdigit(s) == Len(s) > 0 /\ \A i \in 1..Len(s) : s[i] \in Digits

\* int(s) for an all-digit s
RECURSIVE int(_)
int(s) == IF Len(s) = 0 THEN 0
          ELSE int(SubSeq(s, 1, Len(s) - 1)) * 10 + DigitVal(s[Len(s)])

LowerChar(c) ==
    CASE c = "E" -> "e" [] c = "N" -> "n" [] c = "G" -> "g" [] c = "S" -> "s"
      [] OTHER -> c

\* str.lower()
lower(s) == [i \in 1..Len(s) |-> LowerChar(s[i])]

\* the test `p in c` on two strings
contains(p, c) ==
    \E i \in 0..(Len(c) - Len(p)) : SubSeq(c, i + 1, i + Len(p)) = p

\* str.split(sep) for a one-character separator
RECURSIVE split(_, _)
split(s, sep) ==
    IF \A i \in 1..Len(s) : s[i] # sep THEN <<s>>
    ELSE LET k == CHOOSE i \in 1..Len(s) : s[i] = sep /\ \A j \in 1..(i - 1) : s[j] # sep
         IN  <<SubSeq(s, 1, k - 1)>> \o split(SubSeq(s, k + 1, Len(s)), sep)

\* dict.get(key, default)
get(d, key, default) == IF key \in DOMAIN d THEN d[key] ELSE default

Range(s) == {s[i] : i \in DOMAIN s}

\* a string never equals an int: set(tokens) - set(ints) removes nothing
PyEq(token, number) == FALSE

-----------------------------------------------------------------------------
(* The streams ffprobe reports (get_info).  ffprobe numbers the streams     *)
(* 0, 1, 2, ... in file order; "tags" is present only when a stream has     *)
(* tags; "disposition" is always present.                                   *)

s_eng == <<"e", "n", "g">>
s_jpn == <<"j", "p", "n">>
s_Eng == <<"E", "n", "g">>
s_Signs == <<"S", "i", "g", "n", "s">>
s_50 == <<"5", "0">>
s_100 == <<"1", "0", "0">>

\* the shapes of stream the inputs are drawn from, by number
Stream(shape, i) ==
    CASE shape = 1 ->
           [index |-> i, codec_type |-> "video",
            disposition |-> [dub |-> 0, forced |-> 0]]
      [] shape = 2 ->
           [index |-> i, codec_type |-> "audio",
            tags |-> [language |-> s_eng, title |-> s_Eng],
            disposition |-> [dub |-> 0, forced |-> 0]]
      [] shape = 3 ->
           [index |-> i, codec_type |-> "audio",
            tags |-> [language |-> s_jpn],
            disposition |-> [dub |-> 0]]
      [] shape = 4 ->
           [index |-> i, codec_type |-> "subtitle",
            tags |-> [language |-> s_eng, NUMBER_OF_BYTES |-> s_100],
            disposition |-> [dub |-> 0, forced |-> 1]]
      [] shape = 5 ->
           [index |-> i, codec_type |-> "subtitle",
            tags |-> [language |-> s_eng, title |-> s_Signs, NUMBER_OF_BYTES |-> s_50],
            disposition |-> [dub |-> 0, forced |-> 0]]
      [] shape = 6 ->
           [index |-> i, codec_type |-> "attachment",
            disposition |-> [dub |-> 0, forced |-> 0]]

Shapes == 1..6

\* json.loads(output).get("streams"): every list of at most MaxTracks streams
Streams ==
    UNION {{[i \in 1..n |-> Stream(f[i], i - 1)] : f \in [1..n -> Shapes]} : n \in 0..MaxTracks}

-----------------------------------------------------------------------------
(* get_track_number_by_pattern *)

s_smaller == <<"s", "m", "a", "l", "l", "e", "r">>
s_bigger == <<"b", "i", "g", "g", "e", "r">>
s_forced == <<"f", "o", "r", "c", "e", "d">>
s_empty == <<>>
s_0 == <<"0">>

\* the sort key: int(x.get("tags", {}).get("NUMBER_OF_BYTES", "0"))
number_of_bytes(x) == int(get(get(x, "tags", <<>>), "NUMBER_OF_BYTES", s_0))

\* sorted(..., key=...) is stable: x goes after every element whose key is <= its own
RECURSIVE sorted(_)
sorted(xs) ==
    IF Len(xs) = 0 THEN <<>>
    ELSE LET init == sorted(SubSeq(xs, 1, Len(xs) - 1))
             x    == xs[Len(xs)]
             k    == Cardinality({i \in 1..Len(init) :
                                    number_of_bytes(init[i]) <= number_of_bytes(x)})
         IN  SubSeq(init, 1, k) \o <<x>> \o SubSeq(init, k + 1, Len(init))

\* if not codec_type: codec_type = ("subtitle", "audio")
codec_types(ct) == IF Len(ct) = 0 THEN <<"subtitle", "audio">> ELSE ct

filtered_metadata(md, ct) ==
    sorted(SelectSeq(md, LAMBDA x : x.codec_type \in Range(codec_types(ct))))

\* a missing "forced" entry read as 0
forced_candidate_default_0(meta) ==
    IF get(meta.disposition, "forced", 0) # 0 THEN s_forced ELSE s_empty

\* "forced" if meta["disposition"].get("forced", 1) else ""
forced_candidate(meta) ==
    IF get(meta.disposition, "forced", 1) # 0 THEN s_forced ELSE s_empty

\* the three strings a pattern is tested against
candidates(meta) ==
    << lower(get(get(meta, "tags", <<>>), "language", s_empty)),
       lower(get(get(meta, "tags", <<>>), "title", s_empty)),
       forced_candidate(meta) >>

\* the inner loop: meta's index once for each candidate that holds the pattern
matched(p, meta) ==
    LET hits == SelectSeq(candidates(meta), LAMBDA c : contains(lower(p), c))
    IN  [i \in 1..Len(hits) |-> meta.index]

\* the outer loop over filtered_metadata
RECURSIVE selected(_, _)
selected(p, fm) ==
    IF Len(fm) = 0 THEN <<>>
    ELSE matched(p, fm[1]) \o selected(p, Tail(fm))

returns(v) == [exc |-> "", value |-> v]

raises(e) == [exc |-> e, value |-> <<>>]

get_track_number_by_pattern(p, md, ct) ==
    LET fm == filtered_metadata(md, ct)
    IN  IF "subtitle" \in Range(codec_types(ct)) /\ p = s_smaller
        THEN IF Len(fm) = 0 THEN raises("IndexError") ELSE returns(<<fm[1].index>>)
        ELSE IF "subtitle" \in Range(codec_types(ct)) /\ p = s_bigger
        THEN IF Len(fm) = 0 THEN raises("IndexError") ELSE returns(<<fm[Len(fm)].index>>)
        ELSE IF isdigit(p)
        THEN IF int(p) < Len(fm) THEN returns(<<fm[int(p) + 1].index>>)
             \* pattern is now an int: pattern.lower() fails on the first candidate
             ELSE IF Len(fm) = 0 THEN returns(<<>>) ELSE raises("AttributeError")
        ELSE returns(selected(p, fm))

-----------------------------------------------------------------------------
(* The matcher on its own: every stream list with every pattern *)

s_1 == <<"1">>
s_2 == <<"2">>
s_EN == <<"E", "N">>
s_or == <<"o", "r">>

Patterns == {s_smaller, s_bigger, s_0, s_1, s_2, s_eng, s_EN, s_jpn, s_or, s_forced, s_empty}

Scopes == {<<"audio">>, <<"subtitle">>}

Idle == [exc |-> "", value |-> <<>>, called |-> FALSE]

MatchInit ==
    /\ metadata \in Streams \ {<<>>}
    /\ pattern \in Patterns
    /\ codec_type \in Scopes
    /\ result = Idle
    /\ strip = <<>> /\ keep = <<>> /\ fout = "None" /\ pc = "idle"
    /\ digit_tracks = <<>> /\ named_tracks = <<>> /\ pending = {}
    /\ stdout = <<>> /\ calls = <<>> /\ exc = ""

Match ==
    /\ ~result.called
    /\ LET r == get_track_number_by_pattern(pattern, metadata, codec_type)
       IN  result' = [exc |-> r.exc, value |-> r.value, called |-> TRUE]
    /\ UNCHANGED <<metadata, pattern, codec_type>>
    /\ UNCHANGED mainvars

MatchNext == Match

SpecMatch == MatchInit /\ [][MatchNext]_vars

-----------------------------------------------------------------------------
(* main *)

t_1 == <<"1">>
t_9 == <<"9">>
t_x == <<"x">>
t_v_eng == <<"v", ":", "e", "n", "g">>
t_a_eng == <<"a", ":", "e", "n", "g">>
t_s_smaller == <<"s", ":", "s", "m", "a", "l", "l", "e", "r">>

\* the tokens the --strip and --keep lists are drawn from
Tokens == {t_1, t_9, t_x, t_v_eng, t_a_eng, t_s_smaller}

Init ==
    /\ metadata \in Streams
    /\ \E n \in 0..MaxTokens : \E k \in 0..n :
         /\ strip \in [1..k -> Tokens]
         /\ keep \in [1..(n - k) -> Tokens]
    /\ fout \in {"None", "out"}
    /\ pc = "start"
    /\ digit_tracks = <<>> /\ named_tracks = <<>> /\ pending = {}
    /\ stdout = <<>> /\ calls = <<>> /\ exc = ""
    /\ pattern = s_empty /\ codec_type = <<>> /\ result = Idle

\* main is called without `interactive` (the only call passes fin, fout, strip, keep, info)
interactive == FALSE

\* [int(x) for x in tokens if x.isdigit()]
digits_of(tokens) ==
    LET ds == SelectSeq(tokens, isdigit) IN [i \in 1..Len(ds) |-> int(ds[i])]

\* set(tokens) - set(digit_tracks): the tokens are strings, the digit tracks are ints
token_set(tokens, ints) ==
    {t \in Range(tokens) : ~ \E d \in Range(ints) : PyEq(t, d)}

\* the info listing reads track["disposition"]["forced"] of every track
info_raises(info) ==
    /\ ~interactive
    /\ info
    /\ \E i \in 1..Len(metadata) : "forced" \notin DOMAIN metadata[i].disposition

return == pc' = "done" /\ UNCHANGED <<digit_tracks, named_tracks, pending, stdout, calls, exc>>

raise(e) == pc' = "raised" /\ exc' = e

\* if not metadata: return
NoMetadata ==
    /\ pc = "start"
    /\ Len(metadata) = 0
    /\ return
    /\ UNCHANGED <<metadata, strip, keep, fout>> /\ UNCHANGED matchvars

\* --info on a track whose disposition has no "forced" entry: KeyError
InfoRaises ==
    /\ pc = "start"
    /\ Len(metadata) > 0
    /\ \E info \in BOOLEAN : info_raises(info)
    /\ raise("KeyError")
    /\ UNCHANGED <<digit_tracks, named_tracks, pending, stdout, calls>>
    /\ UNCHANGED <<metadata, strip, keep, fout>> /\ UNCHANGED matchvars

\* the listing is printed, or not asked for
listed == \E info \in BOOLEAN : ~info_raises(info)

\* if not fout and (strip or keep): return
MissingOutput ==
    /\ pc = "start"
    /\ Len(metadata) > 0 /\ listed
    /\ fout = "None" /\ (Len(strip) > 0 \/ Len(keep) > 0)
    /\ return
    /\ UNCHANGED <<metadata, strip, keep, fout>> /\ UNCHANGED matchvars

\* the conflict check left out: a command line with both lists is handled as --keep
Conflict_unchecked ==
    /\ pc = "start"
    /\ Len(metadata) > 0 /\ listed
    /\ fout # "None"
    /\ Len(strip) > 0 /\ Len(keep) > 0
    /\ digit_tracks' = digits_of(keep)
    /\ named_tracks' = <<>>
    /\ pending' = token_set(keep, digits_of(keep))
    /\ pc' = "keep"
    /\ UNCHANGED <<stdout, calls, exc>>
    /\ UNCHANGED <<metadata, strip, keep, fout>> /\ UNCHANGED matchvars

\* if strip and keep: return
Conflict ==
    /\ pc = "start"
    /\ Len(metadata) > 0 /\ listed
    /\ ~(fout = "None" /\ (Len(strip) > 0 \/ Len(keep) > 0))
    /\ Len(strip) > 0 /\ Len(keep) > 0
    /\ return
    /\ UNCHANGED <<metadata, strip, keep, fout>> /\ UNCHANGED matchvars

\* neither --strip nor --keep: main falls off its end
Neither ==
    /\ pc = "start"
    /\ Len(metadata) > 0 /\ listed
    /\ Len(strip) = 0 /\ Len(keep) = 0
    /\ return
    /\ UNCHANGED <<metadata, strip, keep, fout>> /\ UNCHANGED matchvars

\* if keep: the two lists and the set the for loop runs over
KeepBegin ==
    /\ pc = "start"
    /\ Len(metadata) > 0 /\ listed
    /\ fout # "None"
    /\ Len(strip) = 0 /\ Len(keep) > 0
    /\ digit_tracks' = digits_of(keep)
    /\ named_tracks' = <<>>
    /\ pending' = token_set(keep, digits_of(keep))
    /\ pc' = "keep"
    /\ UNCHANGED <<stdout, calls, exc>>
    /\ UNCHANGED <<metadata, strip, keep, fout>> /\ UNCHANGED matchvars

\* elif strip: the same
StripBegin ==
    /\ pc = "start"
    /\ Len(metadata) > 0 /\ listed
    /\ fout # "None"
    /\ Len(keep) = 0 /\ Len(strip) > 0
    /\ digit_tracks' = digits_of(strip)
    /\ named_tracks' = <<>>
    /\ pending' = token_set(strip, digits_of(strip))
    /\ pc' = "strip"
    /\ UNCHANGED <<stdout, calls, exc>>
    /\ UNCHANGED <<metadata, strip, keep, fout>> /\ UNCHANGED matchvars

\* one iteration of the for loop, on token t
loop_body(t) ==
    LET track == split(t, ":")
    IN  IF Len(track) < 2
        THEN /\ stdout' = Append(stdout, track[1])
             /\ UNCHANGED <<named_tracks, pc, exc>>
        ELSE IF track[1] = <<"a">> \/ track[1] = <<"s">>
        THEN LET r == get_track_number_by_pattern(
                          track[2], metadata,
                          IF track[1] = <<"a">> THEN <<"audio">> ELSE <<"subtitle">>)
             IN  IF r.exc # ""
                 THEN raise(r.exc) /\ UNCHANGED <<named_tracks, stdout>>
                 ELSE /\ named_tracks' = named_tracks \o r.value
                      /\ UNCHANGED <<stdout, pc, exc>>
        ELSE UNCHANGED <<named_tracks, stdout, pc, exc>>

\* for track in set(keep) - set(digit_tracks): in the set's order, which is arbitrary
KeepToken ==
    /\ pc = "keep"
    /\ \E t \in pending :
         /\ loop_body(t)
         /\ pending' = pending \ {t}
    /\ UNCHANGED <<digit_tracks, calls>>
    /\ UNCHANGED <<metadata, strip, keep, fout>> /\ UNCHANGED matchvars

StripToken ==
    /\ pc = "strip"
    /\ \E t \in pending :
         /\ loop_body(t)
         /\ pending' = pending \ {t}
    /\ UNCHANGED <<digit_tracks, calls>>
    /\ UNCHANGED <<metadata, strip, keep, fout>> /\ UNCHANGED matchvars

\* what write_file is given, as a bag: it adds one "-map -0:x" for each x it iterates over
bag_of_list(xs) == [x \in Range(xs) |-> Cardinality({i \in DOMAIN xs : xs[i] = x})]

bag_of_set(S) == [x \in S |-> 1]

write_file(to_remove) == calls' = Append(calls, [fout |-> fout, to_remove |-> to_remove])

\* the digit tracks not taken back out
keep_track_to_strip_digits_left ==
    LET all == {metadata[i].index : i \in {j \in 1..Len(metadata) :
                    metadata[j].codec_type \in {"audio", "subtitle"}}}
    IN  all \ Range(named_tracks)

\* the digit tracks added, as in strip mode, not taken out
keep_track_to_strip_digits_added ==
    LET all == {metadata[i].index : i \in {j \in 1..Len(metadata) :
                    metadata[j].codec_type \in {"audio", "subtitle"}}}
    IN  (all \ Range(named_tracks)) \cup Range(digit_tracks)

\* keep: the audio and subtitle indices, less the named ones, less each digit track
keep_track_to_strip ==
    LET all == {metadata[i].index : i \in {j \in 1..Len(metadata) :
                    metadata[j].codec_type \in {"audio", "subtitle"}}}
    IN  (all \ Range(named_tracks)) \ Range(digit_tracks)

KeepFinish ==
    /\ pc = "keep"
    /\ pending = {}
    /\ write_file(bag_of_set(keep_track_to_strip))
    /\ pc' = "done"
    /\ UNCHANGED <<digit_tracks, named_tracks, pending, stdout, exc>>
    /\ UNCHANGED <<metadata, strip, keep, fout>> /\ UNCHANGED matchvars

\* strip: the set main builds and then leaves unused (filter drops a named index 0)
strip_track_to_strip ==
    Range(digit_tracks) \cup {x \in Range(named_tracks) : x # 0}

\* track_to_strip passed on
strip_to_remove_filtered == bag_of_set(strip_track_to_strip)

\* the digit tracks forgotten
strip_to_remove_named_only == bag_of_list(named_tracks)

\* strip: what main passes on, digit_tracks + named_tracks
strip_to_remove == bag_of_list(digit_tracks \o named_tracks)

StripFinish ==
    /\ pc = "strip"
    /\ pending = {}
    /\ write_file(strip_to_remove)
    /\ pc' = "done"
    /\ UNCHANGED <<digit_tracks, named_tracks, pending, stdout, exc>>
    /\ UNCHANGED <<metadata, strip, keep, fout>> /\ UNCHANGED matchvars

Next ==
    \/ NoMetadata
    \/ InfoRaises
    \/ MissingOutput
    \/ Conflict
    \/ Neither
    \/ KeepBegin
    \/ StripBegin
    \/ KeepToken
    \/ StripToken
    \/ KeepFinish
    \/ StripFinish

Spec == Init /\ [][Next]_vars

-----------------------------------------------------------------------------
(* What the claims speak of *)

\* the index of every track of the file
CatalogIndices == {metadata[i].index : i \in 1..Len(metadata)}

\* the index of every audio and subtitle track of the file
AudioSubIndices ==
    {metadata[i].index : i \in {j \in 1..Len(metadata) :
        metadata[j].codec_type \in {"audio", "subtitle"}}}

\* the integer value of every all-digit token
Literal(tokens) == {int(tokens[i]) : i \in {j \in 1..Len(tokens) : isdigit(tokens[j])}}

HasSeparator(t) == \E i \in 1..Len(t) : t[i] = ":"

Scope(t) == split(t, ":")[1]

\* a token scope:predicate with scope a or s
WellFormed(t) == ~isdigit(t) /\ HasSeparator(t) /\ Scope(t) \in {<<"a">>, <<"s">>}

\* what the matcher makes of a well-formed token
Matcher(t) ==
    get_track_number_by_pattern(split(t, ":")[2], metadata,
                                IF Scope(t) = <<"a">> THEN <<"audio">> ELSE <<"subtitle">>)

\* every index the matcher returns for a well-formed token of the list
Named(tokens) ==
    UNION {Range(Matcher(tokens[i]).value) : i \in {j \in 1..Len(tokens) : WellFormed(tokens[j])}}

StripMode == Len(strip) > 0 /\ Len(keep) = 0 /\ fout # "None" /\ Len(metadata) > 0

KeepMode == Len(keep) > 0 /\ Len(strip) = 0 /\ fout # "None" /\ Len(metadata) > 0

\* write_file has been invoked
Written == Len(calls) > 0

\* the indices handed to write_file, as a set
Handed == DOMAIN calls[1].to_remove

\* how many times index x was handed to write_file
Times(x) == calls[1].to_remove[x]

-----------------------------------------------------------------------------
(* C1 *)

\* C1: when both token lists are non-empty, or the track list is empty, main never
\* enters either loop and never invokes write_file: it has returned or has yet to.
C1_NoRemuxOnConflictOrEmpty ==
    ((Len(strip) > 0 /\ Len(keep) > 0) \/ Len(metadata) = 0)
        => (~Written /\ pc \in {"start", "done", "raised"})

\* a run with both lists, an output path and tracks has returned
C1_Witness ==
    /\ pc = "done" /\ Len(strip) > 0 /\ Len(keep) > 0
    /\ fout # "None" /\ Len(metadata) > 0

-----------------------------------------------------------------------------
(* C2 *)

-----------------------------------------------------------------------------
(* C3 *)

\* C3: in keep mode, once main has returned, write_file was invoked once with the set
\* of all audio and subtitle indices less the named and the literal ones; it holds no
\* index of a track of another kind and no literal index.
C3_KeepExclusion ==
    (KeepMode /\ pc = "done") =>
        /\ Len(calls) = 1
        /\ Handed = AudioSubIndices \ (Named(keep) \cup Literal(keep))
        /\ \A i \in 1..Len(metadata) :
             metadata[i].codec_type \notin {"audio", "subtitle"} => metadata[i].index \notin Handed
        /\ Handed \cap Literal(keep) = {}

\* a keep run has returned in which a literal index rescued an audio or subtitle track
\* and another track was excluded
C3_Witness ==
    /\ KeepMode /\ pc = "done" /\ Written
    /\ (Literal(keep) \cap AudioSubIndices) \ Named(keep) # {}
    /\ Handed # {}

-----------------------------------------------------------------------------
(* C4 *)

\* C4, as claimed: every index handed to write_file is the index of a track of the file.
C4_OnlyCatalogIndices == Written => Handed \subseteq CatalogIndices

\* C4, amended: in keep mode every index handed to write_file is the index of an audio
\* or subtitle track of the file; in strip mode every index handed on is the index of a
\* track of the file or the value of a literal token.
C4_Amended ==
    Written =>
        /\ KeepMode => Handed \subseteq AudioSubIndices
        /\ StripMode => Handed \subseteq (CatalogIndices \cup Literal(strip))
        /\ KeepMode \/ StripMode

\* a strip run has handed on a literal index that no track has
C4_Witness ==
    /\ StripMode /\ pc = "done" /\ Written
    /\ \E x \in Handed : x \notin CatalogIndices /\ x \in Literal(strip)

-----------------------------------------------------------------------------
(* C5 *)

\* the tokens of the run's mode
tokens == IF Len(keep) > 0 THEN keep ELSE strip

\* a non-numeric token without separator, or with a scope other than a and s
Unparseable(t) == ~isdigit(t) /\ (~HasSeparator(t) \/ Scope(t) \notin {<<"a">>, <<"s">>})

\* the list with its unparseable tokens taken out
Parseable(ts) == SelectSeq(ts, LAMBDA t : ~Unparseable(t))

\* C5, as claimed: once a strip or keep run has returned, the tokens reported as
\* unrecognized are exactly the unparseable ones (an all-digit token is not reported,
\* a token of unknown scope is), and the indices handed on are those of the list
\* without its unparseable tokens.
C5_ReportedExactlyUnparseable ==
    ((StripMode \/ KeepMode) /\ pc = "done") =>
        /\ Range(stdout) = {t \in Range(tokens) : Unparseable(t)}
        /\ StripMode => Handed = Literal(Parseable(strip)) \cup Named(Parseable(strip))
        /\ KeepMode =>
             Handed = AudioSubIndices \ (Named(Parseable(keep)) \cup Literal(Parseable(keep)))

-----------------------------------------------------------------------------
(* C6 *)

\* the exclusion set of a run: nothing when write_file was not invoked
Exclusion == IF Written THEN Handed ELSE {}

\* C6, as claimed: with tracks, an output path and no keep tokens, once main has
\* returned the exclusion set is empty if and only if the strip list is empty.
C6_EmptyIffNoTokens ==
    (pc = "done" /\ Len(keep) = 0 /\ fout # "None" /\ Len(metadata) > 0) =>
        (Exclusion = {} <=> Len(strip) = 0)

\* C6, amended: the exclusion set is empty if and only if the strip list holds no
\* literal token and no well-formed token of it matches a track; so it is empty when
\* the list is empty, and also for a list of malformed or unmatched tokens.
C6_Amended ==
    (pc = "done" /\ Len(keep) = 0 /\ fout # "None" /\ Len(metadata) > 0) =>
        /\ Exclusion = {} <=>
             /\ \A i \in 1..Len(strip) : ~isdigit(strip[i])
             /\ \A i \in 1..Len(strip) : WellFormed(strip[i]) => Matcher(strip[i]).value = <<>>
        /\ Len(strip) = 0 => Exclusion = {}

\* a strip run with tokens has returned having handed on no index
C6_Witness == StripMode /\ pc = "done" /\ Written /\ Handed = {}

-----------------------------------------------------------------------------
(* C9 *)

\* C9, as claimed: every index handed to write_file is handed to it once, and the
\* indices main collects from the matcher for a single pattern token are distinct.
C9_EachIndexOnce ==
    /\ Written => \A x \in Handed : Times(x) = 1
    /\ (Cardinality(Range(strip) \cup Range(keep)) = 1 /\ pc \in {"strip", "keep", "done"}) =>
         \A i, j \in 1..Len(named_tracks) : named_tracks[i] = named_tracks[j] => i = j

-----------------------------------------------------------------------------
(* The matcher's claims, on SpecMatch *)

\* the positions in metadata of the tracks of the scope asked for
Candidates == {i \in 1..Len(metadata) : metadata[i].codec_type \in Range(codec_type)}

Bytes(i) == number_of_bytes(metadata[i])

Language(i) == lower(get(get(metadata[i], "tags", <<>>), "language", s_empty))

Title(i) == lower(get(get(metadata[i], "tags", <<>>), "title", s_empty))

\* the disposition has no "forced" entry, or has forced = 0
ForcedAbsentOrZero(i) == get(metadata[i].disposition, "forced", 0) = 0

\* the disposition has no "forced" entry, or a non-zero one
ForcedAbsentOrSet(i) == get(metadata[i].disposition, "forced", 1) # 0

\* the predicate reaches the substring test: not a size word of the subtitle scope, not a number
SubstringPredicate ==
    /\ ~isdigit(pattern)
    /\ ~("subtitle" \in Range(codec_type) /\ pattern \in {s_smaller, s_bigger})

-----------------------------------------------------------------------------
(* C7 *)

\* C7, as claimed: for the subtitle scope, "smaller" returns without an error the one
\* index of the subtitle track of least NUMBER_OF_BYTES, the earliest in the file among
\* equals, and the empty result when the file has no subtitle track; "bigger" returns
\* the one index of a subtitle track of greatest NUMBER_OF_BYTES.
C7_SmallerBigger ==
    (result.called /\ codec_type = <<"subtitle">> /\ pattern \in {s_smaller, s_bigger}) =>
        /\ result.exc = ""
        /\ Candidates = {} => result.value = <<>>
        /\ (Candidates # {} /\ pattern = s_smaller) =>
             \E i \in Candidates :
                /\ result.value = <<metadata[i].index>>
                /\ \A k \in Candidates : Bytes(i) < Bytes(k) \/ (Bytes(i) = Bytes(k) /\ i <= k)
        /\ (Candidates # {} /\ pattern = s_bigger) =>
             \E i \in Candidates :
                /\ result.value = <<metadata[i].index>>
                /\ \A k \in Candidates : Bytes(i) >= Bytes(k)

-----------------------------------------------------------------------------
(* C8 *)

\* C8, as claimed: for an all-digit predicate n, the matcher returns the index at
\* position n of the candidates in order of size when n is a position of that list;
\* when it is not and there is a candidate, the matcher does not fail and returns the
\* indices of the candidates whose language or title holds the digits.
C8_NumericRank ==
    (result.called /\ isdigit(pattern)) =>
        LET fm == filtered_metadata(metadata, codec_type)
            n  == int(pattern)
        IN  /\ n < Len(fm) => (result.exc = "" /\ result.value = <<fm[n + 1].index>>)
            /\ (n >= Len(fm) /\ Len(fm) > 0) =>
                 /\ result.exc = ""
                 /\ Range(result.value) =
                      {metadata[i].index : i \in {j \in Candidates :
                          contains(pattern, Language(j)) \/ contains(pattern, Title(j))}}

-----------------------------------------------------------------------------
(* C10 *)

====
